---- MODULE Spec2Model ----
(***************************************************************************)
(* Model of shop_stripe/offsite_stripe.py: the StripeBackend payment       *)
(* backend of django-shop.  The state is the process-wide settings, the    *)
(* backend instance built from them, the stripe module's global api_key,   *)
(* the shop's order row, the provider's ledger of created charges and the  *)
(* stack frame, the outbound calls and the responses of each request.      *)
(*                                                                         *)
(* A POST is handled in three steps, cut at the points where the serving   *)
(* environment may run another request or another actor: after charge_card *)
(* stored the credential in the stripe module (line 109), and while the    *)
(* provider call is in flight (line 111).                                  *)
(***************************************************************************)
EXTENDS Integers, Sequences, FiniteSets, TLC

\* ---------------------------------------------------------------- bounds
MaxRequests == 2
MaxSettingsChanges == 1
MaxOrderChanges == 1

\* ---------------------------------------------------------------- values
\* Python's None.
None == "None"
\* A setting the settings module does not define (reading it raises AttributeError).
Unset == "<unset>"

PrivateKeys == {"sk_1", "sk_2"}
PublicKeys == {"pk_1"}
Currencies == {"eur"}
SettingNames ==
    {"SHOP_STRIPE_PRIVATE_KEY", "SHOP_STRIPE_PUBLISHABLE_KEY", "SHOP_STRIPE_CURRENCY"}
SettingValues(k) ==
    CASE k = "SHOP_STRIPE_PRIVATE_KEY" -> PrivateKeys \cup {Unset}
      [] k = "SHOP_STRIPE_PUBLISHABLE_KEY" -> PublicKeys \cup {Unset}
      [] OTHER -> Currencies \cup {Unset}

\* Values of the success_url class attribute (None unless a subclass sets it).
SuccessUrls == {None, "/thanks/"}
FinishedUrl == "/shop/finished/"

\* Order totals are decimals, coeff * 10^exp: 5.00, 19.99 and 19.999.
Totals ==
    { [coeff |-> 500, exp |-> -2],
      [coeff |-> 1999, exp |-> -2],
      [coeff |-> 19999, exp |-> -3] }

\* request.POST without fields.
NoFields == [f \in {} |-> None]

\* What stripe.Charge.create does with a request it received.
CardErrorMessages == {"Your card was declined."}
Outcomes ==
    { [kind |-> "created", message |-> None],
      [kind |-> "APIConnectionError", message |-> "Could not connect"] }
    \cup { [kind |-> "CardError", message |-> m] : m \in CardErrorMessages }

\* request.user: anonymous, or authenticated with an email.
Anonymous == [authenticated |-> FALSE, email |-> None]
Customer == [authenticated |-> TRUE, email |-> "a@example.com"]

\* The requests that arrive: their method, submitted fields and user, and
\* whether the session has an order.
RequestInputs ==
    { [method |-> "GET", POST |-> NoFields, user |-> Anonymous, has_order |-> FALSE],
      [method |-> "GET", POST |-> NoFields, user |-> Customer, has_order |-> TRUE],
      [method |-> "POST", POST |-> NoFields, user |-> Anonymous, has_order |-> TRUE],
      [method |-> "POST", POST |-> [stripeToken |-> ""], user |-> Customer, has_order |-> TRUE],
      [method |-> "POST", POST |-> [stripeToken |-> "tok_1"], user |-> Customer, has_order |-> TRUE],
      [method |-> "POST", POST |-> [stripeToken |-> "tok_2"], user |-> Anonymous, has_order |-> TRUE] }

NoOutcome == [kind |-> "none", message |-> None]

Requests == 1..MaxRequests
OrderId == 1

VARIABLES
    settings,          \* django.conf.settings
    settings_changes,  \* how often the settings were changed (bounded)
    construction,      \* outcome of StripeBackend(shop), and the settings it read
    backend,           \* the fields of the StripeBackend instance
    stripe_api_key,    \* stripe.api_key, a global of the stripe module
    order,             \* the shop's order row
    payments,          \* the payments the shop recorded for the order
    ledger,            \* the charges the provider created
    frame,             \* per request: its inputs, locals and position in the view
    charge_calls,      \* per request: the stripe.Charge.create calls it made
    confirm_calls,     \* per request: the shop.confirm_payment calls it made
    responses          \* per request: the responses it returned

vars ==
    << settings, settings_changes, construction, backend, stripe_api_key, order,
       payments, ledger, frame, charge_calls, confirm_calls, responses >>

\* ---------------------------------------------------------- pure helpers
RECURSIVE Pow10(_)
Pow10(n) == IF n = 0 THEN 1 ELSE 10 * Pow10(n - 1)

\* Decimal * int
DecimalTimes(d, k) == [d EXCEPT !.coeff = @ * k]

\* int(Decimal): truncation toward zero
DecimalToInt(d) ==
    IF d.exp >= 0 THEN d.coeff * Pow10(d.exp)
    ELSE IF d.coeff >= 0 THEN d.coeff \div Pow10(-d.exp)
    ELSE -((-d.coeff) \div Pow10(-d.exp))

DigitChars == << "0", "1", "2", "3", "4", "5", "6", "7", "8", "9" >>

\* str(int): the decimal digits
RECURSIVE Str(_)
Str(n) ==
    IF n < 0 THEN "-" \o Str(-n)
    ELSE IF n < 10 THEN DigitChars[n + 1]
    ELSE Str(n \div 10) \o DigitChars[(n % 10) + 1]

\* Python truthiness of a string or None
Truthy(s) == s # None /\ s # ""

\* dict.get(key): None when the key is absent
DictGet(d, key) == IF key \in DOMAIN d THEN d[key] ELSE None

Returned(v) == [raised |-> None, value |-> v]
Raised(exc) == [raised |-> exc, value |-> None]

Append1(f, r, x) == [f EXCEPT ![r] = Append(@, x)]

\* ------------------------------------------------------- class attributes
backend_name == "Stripe"
template == "shop_stripe/payment.html"

\* ------------------------------------------------------ settings getters
get_stripe_private_key(s) ==
    IF s["SHOP_STRIPE_PRIVATE_KEY"] = Unset
    THEN Raised("ImproperlyConfigured")
    ELSE Returned(s["SHOP_STRIPE_PRIVATE_KEY"])

\* As getattr(settings, ..., None) would: no exception for a missing key.
MutPublicKeyNoRaise(s) == Returned(s["SHOP_STRIPE_PUBLISHABLE_KEY"])

get_stripe_public_key(s) ==
    IF s["SHOP_STRIPE_PUBLISHABLE_KEY"] = Unset
    THEN Raised("ImproperlyConfigured")
    ELSE Returned(s["SHOP_STRIPE_PUBLISHABLE_KEY"])

get_currency(s) ==
    IF s["SHOP_STRIPE_CURRENCY"] = Unset THEN "usd" ELSE s["SHOP_STRIPE_CURRENCY"]

\* StripeBackend.__init__: the instance, or the exception a getter raised.
NoBackend == [exists |-> FALSE]
StripeBackendInit(s, success_url) ==
    LET private == get_stripe_private_key(s)
        public == get_stripe_public_key(s)
    IN  IF private.raised # None THEN Raised(private.raised)
        ELSE IF public.raised # None THEN Raised(public.raised)
        ELSE Returned([ exists |-> TRUE,
                        private_key |-> private.value,
                        public_key |-> public.value,
                        currency |-> get_currency(s),
                        success_url |-> success_url ])

get_success_url(b) ==
    IF Truthy(b.success_url) THEN b.success_url ELSE FinishedUrl

get_description(user) ==
    IF user.authenticated THEN user.email ELSE "guest customer"

\* ------------------------------------------------------- the view's steps
\* A guard that turns away a request whose order already has a payment.
MutOrderRequiredUnpaid(has_order) == has_order /\ payments = << >>

\* @on_method(order_required): the view body runs only for a request that has
\* an order.
order_required(has_order) == has_order

\* shop.get_order(request) and shop.get_order_for_id(id): the order object as
\* the row is now (the shop holds the one order of the session).
get_order(row) == [id |-> row.id, total |-> row.total, rev |-> row.rev]
get_order_for_id(row, id) == get_order(row)

\* A test of the method that every request passes.
MutIsPostAlways(method) == method # None

IsPost(method) == method = "POST"

\* The wrong key handed to the template.
MutContextPrivateKey(b, amount) ==
    [ error |-> None,
      STRIPE_PUBLISHABLE_KEY |-> b.private_key,
      amount |-> amount,
      currency |-> b.currency ]

Context(b, amount) ==
    [ error |-> None,
      STRIPE_PUBLISHABLE_KEY |-> b.public_key,
      amount |-> amount,
      currency |-> b.currency ]

\* A fresh form in place of the submitted one.
MutBoundFormFresh(POST) == [bound |-> FALSE, data |-> NoFields]

BoundForm(POST) == [bound |-> TRUE, data |-> POST]
UnboundForm == [bound |-> FALSE, data |-> NoFields]

\* Rounding half up in place of int()'s truncation.
MutStripeAmountRound(amount) ==
    Str(DecimalToInt([coeff |-> 2 * amount.coeff * 100 + Pow10(-amount.exp),
                      exp |-> amount.exp]) \div 2)

\* str(int(amount * 100))
StripeAmount(amount) == Str(DecimalToInt(DecimalTimes(amount, 100)))

\* A test for None alone, which lets the empty string through.
MutTokenMissingNoneOnly(token) == token = None

\* not token
TokenMissing(token) == ~Truthy(token)

\* render(request, self.template, context) after context['form'] = form
Render(context, form) ==
    [ status |-> 200,
      template |-> template,
      context |-> [ error |-> context.error,
                    STRIPE_PUBLISHABLE_KEY |-> context.STRIPE_PUBLISHABLE_KEY,
                    amount |-> context.amount,
                    currency |-> context.currency,
                    form |-> form ] ]

BadRequest(body) == [status |-> 400, body |-> body]
Redirect(to) == [status |-> 302, location |-> to]
\* An exception the view does not catch is answered by the framework.
ServerError(exc) == [status |-> 500, exception |-> exc]

\* The keyword arguments of stripe.Charge.create, with the credential the
\* stripe module holds when the call is made.
ChargeArgs(f, b, api_key) ==
    [ api_key |-> api_key,
      card |-> f.token,
      currency |-> b.currency,
      amount |-> f.stripe_amount,
      description |-> f.description ]

\* The order total, not the amount that was charged.
MutConfirmArgsTotal(f, row, tx_id) ==
    [ order |-> [id |-> row.id, total |-> row.total, rev |-> row.rev],
      amount |-> Str(DecimalToInt(f.amount)),
      transaction_id |-> tx_id,
      payment_method |-> backend_name ]

\* The order object fetched before the charge, not re-fetched by its id.
MutConfirmArgsStale(f, row, tx_id) ==
    [ order |-> f.order,
      amount |-> f.stripe_amount,
      transaction_id |-> tx_id,
      payment_method |-> backend_name ]

\* The arguments of shop.confirm_payment.
ConfirmArgs(f, row, tx_id) ==
    [ order |-> get_order_for_id(row, f.order_id),
      amount |-> f.stripe_amount,
      transaction_id |-> tx_id,
      payment_method |-> backend_name ]

\* ------------------------------------------------------------------ Init
NewFrame == [pc |-> "new"]

Init ==
    /\ settings \in { s \in [SettingNames -> {Unset, "sk_1", "pk_1", "eur"}] :
                        \A k \in SettingNames : s[k] \in SettingValues(k) }
    /\ settings_changes = 0
    /\ construction = [state |-> "pending"]
    /\ backend = NoBackend
    /\ stripe_api_key = None
    /\ order \in { [id |-> OrderId, total |-> t, rev |-> 0] : t \in Totals }
    /\ payments = << >>
    /\ ledger = << >>
    /\ frame = [r \in Requests |-> NewFrame]
    /\ charge_calls = [r \in Requests |-> << >>]
    /\ confirm_calls = [r \in Requests |-> << >>]
    /\ responses = [r \in Requests |-> << >>]

\* --------------------------------------------------------------- actions
\* StripeBackend(shop), once, when the shop loads its payment backends.
Construct(success_url) ==
    /\ construction.state = "pending"
    /\ LET made == StripeBackendInit(settings, success_url)
       IN  IF made.raised # None
           THEN /\ construction' = [state |-> made.raised, read |-> settings]
                /\ UNCHANGED backend
           ELSE /\ construction' = [state |-> "ok", read |-> settings]
                /\ backend' = made.value
    /\ UNCHANGED << settings, settings_changes, stripe_api_key, order, payments,
                    ledger, frame, charge_calls, confirm_calls, responses >>

\* The process-wide settings are changed.
ChangeSettings(k, v) ==
    /\ settings_changes < MaxSettingsChanges
    /\ v \in SettingValues(k)
    /\ v # settings[k]
    /\ settings' = [settings EXCEPT ![k] = v]
    /\ settings_changes' = settings_changes + 1
    /\ UNCHANGED << construction, backend, stripe_api_key, order, payments, ledger,
                    frame, charge_calls, confirm_calls, responses >>

\* Another actor changes the order's total.
ChangeOrder(t) ==
    /\ order.rev < MaxOrderChanges
    /\ t # order.total
    /\ order' = [order EXCEPT !.total = t, !.rev = @ + 1]
    /\ UNCHANGED << settings, settings_changes, construction, backend,
                    stripe_api_key, payments, ledger, frame, charge_calls,
                    confirm_calls, responses >>

\* stripe_payment_view up to the provider call: lines 128-146, and charge_card's
\* line 109 for a POST with a token.  Requests take the slots in order.
ViewEnter(r, in) ==
    /\ backend.exists
    /\ frame[r].pc = "new"
    /\ \A q \in Requests : q < r => frame[q].pc # "new"
    /\ LET method == in.method
           POST == in.POST
           user == in.user
           has_order == in.has_order
           o == get_order(order)
           amount == o.total
           context == Context(backend, amount)
           token == DictGet(POST, "stripeToken")
           key == get_stripe_private_key(settings)
           locals == [ pc |-> "done", in |-> in, order |-> o, order_id |-> o.id,
                       amount |-> amount, context |-> context ]
           post == [ pc |-> "done", in |-> in, order |-> o, order_id |-> o.id,
                     amount |-> amount, context |-> context,
                     form |-> BoundForm(POST),
                     description |-> get_description(user),
                     stripe_amount |-> StripeAmount(amount),
                     token |-> token,
                     outcome |-> NoOutcome, tx_id |-> None ]
       IN  IF ~order_required(has_order)
           THEN /\ frame' = [frame EXCEPT ![r] = [pc |-> "done", in |-> in]]
                /\ responses' = Append1(responses, r, Redirect("cart"))
                /\ UNCHANGED stripe_api_key
           ELSE IF ~IsPost(method)
           THEN /\ frame' = [frame EXCEPT ![r] = locals]
                /\ responses' = Append1(responses, r, Render(context, UnboundForm))
                /\ UNCHANGED stripe_api_key
           ELSE IF TokenMissing(token)
           THEN /\ frame' = [frame EXCEPT ![r] = post]
                /\ responses' = Append1(responses, r, BadRequest("stripeToken not set"))
                /\ UNCHANGED stripe_api_key
           ELSE IF key.raised # None
           THEN /\ frame' = [frame EXCEPT ![r] = post]
                /\ responses' = Append1(responses, r, ServerError(key.raised))
                /\ UNCHANGED stripe_api_key
           ELSE /\ frame' = [frame EXCEPT ![r] = [post EXCEPT !.pc = "charge_card"]]
                /\ stripe_api_key' = key.value
                /\ UNCHANGED responses
    /\ UNCHANGED << settings, settings_changes, construction, backend, order,
                    payments, ledger, charge_calls, confirm_calls >>

\* charge_card, line 111: the request to the provider leaves, with the
\* credential the stripe module holds now.
ChargeCreate(r) ==
    /\ frame[r].pc = "charge_card"
    /\ charge_calls' = Append1(charge_calls, r, ChargeArgs(frame[r], backend, stripe_api_key))
    /\ frame' = [frame EXCEPT ![r].pc = "in_flight"]
    /\ UNCHANGED << settings, settings_changes, construction, backend,
                    stripe_api_key, order, payments, ledger, confirm_calls, responses >>

\* The provider answers and the view runs to its response: lines 115-117 and
\* 148-163.
ViewReturn(r, outcome) ==
    /\ frame[r].pc = "in_flight"
    /\ LET f == frame[r]
           tx_id == "ch_" \o Str(Len(ledger) + 1)
           confirm == ConfirmArgs(f, order, tx_id)
       IN  CASE outcome.kind = "created" ->
                   /\ ledger' = Append(ledger, [id |-> tx_id, request |-> r,
                                                charge |-> charge_calls[r][Len(charge_calls[r])]])
                   /\ confirm_calls' = Append1(confirm_calls, r, confirm)
                   /\ payments' = Append(payments,
                                         [ order_id |-> confirm.order.id,
                                           amount |-> confirm.amount,
                                           transaction_id |-> confirm.transaction_id,
                                           payment_method |-> confirm.payment_method ])
                   /\ responses' = Append1(responses, r, Redirect(get_success_url(backend)))
                   /\ frame' = [frame EXCEPT ![r].pc = "done",
                                             ![r].outcome = outcome,
                                             ![r].tx_id = tx_id]
             [] outcome.kind = "CardError" ->
                   /\ responses' = Append1(responses, r,
                                           Render([f.context EXCEPT !.error = outcome.message],
                                                  f.form))
                   /\ frame' = [frame EXCEPT ![r].pc = "done", ![r].outcome = outcome]
                   /\ UNCHANGED << ledger, confirm_calls, payments >>
             [] OTHER ->
                   /\ responses' = Append1(responses, r, ServerError(outcome.kind))
                   /\ frame' = [frame EXCEPT ![r].pc = "done", ![r].outcome = outcome]
                   /\ UNCHANGED << ledger, confirm_calls, payments >>
    /\ UNCHANGED << settings, settings_changes, construction, backend,
                    stripe_api_key, order, charge_calls >>

Next ==
    \/ \E u \in SuccessUrls : Construct(u)
    \/ \E k \in SettingNames : \E v \in SettingValues(k) : ChangeSettings(k, v)
    \/ \E t \in Totals : ChangeOrder(t)
    \/ \E r \in Requests : \E in \in RequestInputs : ViewEnter(r, in)
    \/ \E r \in Requests : ChargeCreate(r)
    \/ \E r \in Requests : \E o \in Outcomes : ViewReturn(r, o)

Spec == Init /\ [][Next]_vars

\* ================================================================ claims
Entered(r) == frame[r].pc # "new"
Done(r) == frame[r].pc = "done"
\* The request reached the view body as a POST / as another method.
ViewPost(r) == Entered(r) /\ frame[r].in.has_order /\ frame[r].in.method = "POST"
ViewGet(r) == Entered(r) /\ frame[r].in.has_order /\ frame[r].in.method # "POST"
Submitted(r) == frame[r].in.POST
HasToken(r) ==
    /\ "stripeToken" \in DOMAIN Submitted(r)
    /\ Submitted(r)["stripeToken"] \notin {None, ""}
\* The provider created the charge / rejected the card for request r.
Accepted(r) == ViewPost(r) /\ HasToken(r) /\ Done(r) /\ frame[r].outcome.kind = "created"
Rejected(r) == ViewPost(r) /\ HasToken(r) /\ Done(r) /\ frame[r].outcome.kind = "CardError"
\* The ids the provider returned to request r.
ReturnedIds(r) == { ledger[i].id : i \in { j \in DOMAIN ledger : ledger[j].request = r } }
ExpectedSuccessUrl ==
    IF backend.success_url \in {None, ""} THEN FinishedUrl ELSE backend.success_url

\* C1: a POST with a non-empty token whose charge the provider created made
\* exactly one charge call and exactly one confirm_payment call, the latter
\* with the amount string of the charge, the transaction id the provider
\* returned and the backend name; its only response is a redirect to the
\* success url; and confirm_payment is never called by a request whose charge
\* has not returned as created.
C1_AcceptedPost ==
    \A r \in Requests :
        /\ Accepted(r) =>
             /\ Len(charge_calls[r]) = 1
             /\ Len(confirm_calls[r]) = 1
             /\ confirm_calls[r][1].amount = charge_calls[r][1].amount
             /\ ReturnedIds(r) = {confirm_calls[r][1].transaction_id}
             /\ confirm_calls[r][1].payment_method = "Stripe"
             /\ responses[r] = << [status |-> 302, location |-> ExpectedSuccessUrl] >>
        /\ confirm_calls[r] # << >> => Accepted(r)

C1_Witness ==
    \E r \in Requests :
        /\ Accepted(r)
        /\ Len(confirm_calls[r]) = 1
        /\ Len(responses[r]) = 1
        /\ responses[r][1].status = 302

\* C2: a POST with a non-empty token that the provider rejected with a card
\* error called the provider exactly once and confirm_payment never, no
\* payment of the order stems from it, and its only response is the 200 render
\* of the payment template with the provider's message as 'error' and the
\* form bound to the submitted data.
C2_RejectedPost ==
    \A r \in Requests :
        Rejected(r) =>
            /\ Len(charge_calls[r]) = 1
            /\ confirm_calls[r] = << >>
            /\ ReturnedIds(r) = {}
            /\ Len(responses[r]) = 1
            /\ responses[r][1].status = 200
            /\ responses[r][1].template = "shop_stripe/payment.html"
            /\ responses[r][1].context.error = frame[r].outcome.message
            /\ responses[r][1].context.error \in CardErrorMessages
            /\ responses[r][1].context.form = [bound |-> TRUE, data |-> Submitted(r)]

C2_Witness ==
    \E r \in Requests :
        /\ Rejected(r)
        /\ Len(responses[r]) = 1
        /\ responses[r][1].context.error = "Your card was declined."
        /\ payments = << >>

\* C3: a POST whose stripeToken is absent or empty makes no charge call and no
\* confirm_payment call and is answered 400 with the body 'stripeToken not set'.
C3_MissingToken ==
    \A r \in Requests :
        (ViewPost(r) /\ ~HasToken(r)) =>
            /\ charge_calls[r] = << >>
            /\ confirm_calls[r] = << >>
            /\ responses[r] = << [status |-> 400, body |-> "stripeToken not set"] >>

C3_Witness ==
    \E r, q \in Requests :
        /\ ViewPost(r) /\ Submitted(r) = NoFields
        /\ ViewPost(q) /\ Submitted(q) = [stripeToken |-> ""]
        /\ responses[r] # << >> /\ responses[q] # << >>

\* The total the request read, times 100, as a fraction num / den.
CentsNum(r) == frame[r].amount.coeff * 100
CentsDen(r) == Pow10(-frame[r].amount.exp)
\* The integers next to that fraction.
CentsNear(r) ==
    LET e == CentsNum(r) \div CentsDen(r) IN { n \in (e - 1)..(e + 1) : n >= 0 }

\* C4 as stated: the amount of every charge call is round(orderTotal * 100).
C4_Rounded ==
    \A r \in Requests : \A i \in DOMAIN charge_calls[r] :
        \E n \in CentsNear(r) :
            /\ charge_calls[r][i].amount = Str(n)
            /\ 2 * n * CentsDen(r) - CentsDen(r) <= 2 * CentsNum(r)
            /\ 2 * CentsNum(r) < 2 * n * CentsDen(r) + CentsDen(r)

\* C4, amended: the amount of every charge call is the decimal string of the
\* integer n with n <= orderTotal * 100 < n + 1, the total times 100 with its
\* fraction cut off.
C4_Truncated ==
    \A r \in Requests : \A i \in DOMAIN charge_calls[r] :
        \E n \in CentsNear(r) :
            /\ charge_calls[r][i].amount = Str(n)
            /\ n * CentsDen(r) <= CentsNum(r)
            /\ CentsNum(r) < (n + 1) * CentsDen(r)

C4_Witness ==
    \E r \in Requests :
        /\ charge_calls[r] # << >>
        /\ frame[r].amount = [coeff |-> 19999, exp |-> -3]
        /\ charge_calls[r][1].amount = "1999"

\* C5: a request with another method than POST makes no charge call and no
\* confirm_payment call, and its only response is the 200 render of the
\* template with an unbound form, error None, the public key, the order total
\* it read as amount and the backend's currency.
C5_Get ==
    \A r \in Requests :
        ViewGet(r) =>
            /\ Done(r)
            /\ charge_calls[r] = << >>
            /\ confirm_calls[r] = << >>
            /\ responses[r] =
                 << [ status |-> 200,
                      template |-> "shop_stripe/payment.html",
                      context |-> [ form |-> [bound |-> FALSE, data |-> NoFields],
                                    error |-> None,
                                    STRIPE_PUBLISHABLE_KEY |-> backend.public_key,
                                    amount |-> frame[r].order.total,
                                    currency |-> backend.currency ] ] >>

C5_Witness ==
    \E r \in Requests :
        /\ ViewGet(r)
        /\ Len(responses[r]) = 1
        /\ responses[r][1].context.currency = "usd"

\* C6: the amounts of the charge call and of the confirm_payment call are the
\* total the view read when it was entered, converted once; the locals do not
\* change while the provider call is in flight; and the order passed to
\* confirm_payment is the order row as it is when confirm_payment is called,
\* fetched by the id captured on entry.
C6_CapturedThenRefetched ==
    [][ \A r \in Requests :
          /\ (frame[r].pc = "new" /\ frame'[r].pc = "charge_card") =>
               /\ frame'[r].amount = order.total
               /\ frame'[r].order_id = order.id
          /\ (frame[r].pc \in {"charge_card", "in_flight"}) =>
               /\ frame'[r].amount = frame[r].amount
               /\ frame'[r].order_id = frame[r].order_id
               /\ frame'[r].stripe_amount = frame[r].stripe_amount
          /\ Len(charge_calls'[r]) > Len(charge_calls[r]) =>
               /\ charge_calls'[r][Len(charge_calls'[r])].amount
                    = Str((frame[r].amount.coeff * 100) \div Pow10(-frame[r].amount.exp))
          /\ Len(confirm_calls'[r]) > Len(confirm_calls[r]) =>
               /\ confirm_calls'[r][Len(confirm_calls'[r])].amount
                    = Str((frame[r].amount.coeff * 100) \div Pow10(-frame[r].amount.exp))
               /\ confirm_calls'[r][Len(confirm_calls'[r])].order
                    = [id |-> frame[r].order_id, total |-> order.total, rev |-> order.rev]
               /\ frame[r].order_id = order.id
      ]_vars

C6_Witness ==
    \E r \in Requests :
        /\ Accepted(r)
        /\ Len(confirm_calls[r]) = 1
        /\ confirm_calls[r][1].order.total # frame[r].order.total
        /\ confirm_calls[r][1].amount = "1999"
        /\ confirm_calls[r][1].order.total = [coeff |-> 500, exp |-> -2]

\* The strings a response carries.
Strings(resp) ==
    CASE resp.status = 200 ->
            { resp.template, resp.context.error, resp.context.STRIPE_PUBLISHABLE_KEY,
              resp.context.currency }
            \cup { resp.context.form.data[k] : k \in DOMAIN resp.context.form.data }
      [] resp.status = 302 -> { resp.location }
      [] resp.status = 400 -> { resp.body }
      [] OTHER -> { resp.exception }

\* C7: no response carries the backend's private key, nor any value the
\* private key setting takes; every rendered context carries the backend's
\* public key.
C7_PrivateKeyNotInResponse ==
    \A r \in Requests : \A i \in DOMAIN responses[r] :
        /\ backend.private_key \notin Strings(responses[r][i])
        /\ Strings(responses[r][i]) \cap PrivateKeys = {}
        /\ responses[r][i].status = 200 =>
             responses[r][i].context.STRIPE_PUBLISHABLE_KEY = backend.public_key

C7_Witness ==
    /\ \E r \in Requests : Rejected(r) /\ responses[r] # << >>
    /\ \E r \in Requests : ViewGet(r) /\ responses[r] # << >>
    /\ backend.private_key \in PrivateKeys

\* C8: construction raises ImproperlyConfigured and leaves no backend, so that
\* no request is served, exactly when the private or the public key setting
\* is missing; otherwise it succeeds, with the currency setting or, when that
\* is missing, 'usd'.
C8_Construction ==
    /\ construction.state = "pending" => ~backend.exists
    /\ construction.state # "pending" =>
         LET s == construction.read
             missing == \/ s["SHOP_STRIPE_PRIVATE_KEY"] = Unset
                        \/ s["SHOP_STRIPE_PUBLISHABLE_KEY"] = Unset
         IN  /\ missing =>
                  /\ construction.state = "ImproperlyConfigured"
                  /\ ~backend.exists
             /\ ~missing =>
                  /\ construction.state = "ok"
                  /\ backend.exists
                  /\ backend.private_key = s["SHOP_STRIPE_PRIVATE_KEY"]
                  /\ backend.public_key = s["SHOP_STRIPE_PUBLISHABLE_KEY"]
                  /\ s["SHOP_STRIPE_CURRENCY"] = Unset => backend.currency = "usd"
                  /\ s["SHOP_STRIPE_CURRENCY"] # Unset =>
                       backend.currency = s["SHOP_STRIPE_CURRENCY"]
    /\ ~backend.exists => \A r \in Requests : ~Entered(r) /\ responses[r] = << >>

C8_Witness ==
    /\ construction.state = "ImproperlyConfigured"
    /\ construction.read["SHOP_STRIPE_PRIVATE_KEY"] # Unset
    /\ construction.read["SHOP_STRIPE_PUBLISHABLE_KEY"] = Unset

\* C9 as stated: the credential of every charge call is the private key read
\* at construction.
C9_CredentialIsSnapshot ==
    \A r \in Requests : \A i \in DOMAIN charge_calls[r] :
        charge_calls[r][i].api_key = backend.private_key

\* C10: earlier payments turn no POST away: every POST with a non-empty token
\* makes its one charge call unless the credential cannot be read; every
\* accepted POST has made one charge call and one confirm_payment call; and
\* the order has as many payments, and the provider as many charges, as POSTs
\* were accepted.
C10_NoDuplicateGuard ==
    /\ \A r \in Requests :
         /\ (ViewPost(r) /\ HasToken(r) /\ Done(r)
               /\ responses[r] # << [status |-> 500, exception |-> "ImproperlyConfigured"] >>)
              => Len(charge_calls[r]) = 1
         /\ Accepted(r) => Len(charge_calls[r]) = 1 /\ Len(confirm_calls[r]) = 1
    /\ Len(payments) = Cardinality({ r \in Requests : Accepted(r) })
    /\ Len(ledger) = Cardinality({ r \in Requests : Accepted(r) })
    /\ \A i \in DOMAIN payments : payments[i].order_id = OrderId

C10_Witness ==
    /\ \A r \in {1, 2} : Accepted(r)
    /\ Len(payments) >= 2
    /\ payments[1].order_id = payments[2].order_id
    /\ payments[1].transaction_id # payments[2].transaction_id

====
